---- MODULE Spec2Model ----
(***************************************************************************)
(* A model of context.py: the extraction of command blocks from a          *)
(* PowerShell transcript (parse_transcript), the self-reference filter     *)
(* (filter_self_referential), the formatter (format_output) and the        *)
(* command line driver (main).                                             *)
(*                                                                         *)
(* A text is a sequence of Unicode code points (naturals), a byte string a *)
(* sequence of naturals below 256.  A list of strings is a sequence of     *)
(* texts.                                                                  *)
(***************************************************************************)
EXTENDS Integers, Sequences, FiniteSets, TLC

VARIABLES
    pc,               \* the position in parse_transcript or in main
    src,              \* parse_transcript's argument, as it was passed
    text,             \* the local `text` of parse_transcript and of main
    blocks,           \* the local `blocks` of parse_transcript and of main
    bi,               \* how many elements `for block in blocks` has consumed
    command_blocks,   \* the local `command_blocks` of parse_transcript
    args,             \* argparse's namespace: count, all, environment
    transcript_file,  \* what find_transcript_file returned
    file,             \* the bytes of the transcript file
    ei,               \* how many of encodings_to_try the loop has consumed
    encoding_used,    \* main's encoding_used
    count,            \* main's count
    selected_blocks,  \* main's selected_blocks
    stdout,           \* what main printed on standard output, print by print
    stderr,           \* the messages main printed on standard error
    exit_code         \* the process exit code, -1 while the run goes on

vars == <<pc, src, text, blocks, bi, command_blocks, args, transcript_file,
          file, ei, encoding_used, count, selected_blocks, stdout, stderr,
          exit_code>>

parseVars == <<src, text, blocks, bi, command_blocks>>
mainVars == <<args, transcript_file, file, ei, encoding_used, count,
              selected_blocks, stdout, stderr, exit_code>>

(***************************************************************************)
(* Characters.                                                             *)
(***************************************************************************)
NUL == 0
TAB == 9
LF == 10
CR == 13
SP == 32
STAR == 42
GT == 62
COLON == 58
BOM == 65279

\* The characters str.strip(), str.lstrip() and the pattern \s take for
\* whitespace.
Whitespace ==
    {9, 10, 11, 12, 13, 28, 29, 30, 31, 32, 133, 160, 5760, 8232, 8233,
     8239, 8287, 12288} \cup (8192..8202)

IsSpace(c) == c \in Whitespace

\* [A-Za-z]
IsAsciiLetter(c) == c \in (65..90) \cup (97..122)

\* str.lower() on one character (the cased characters the model uses are
\* the ASCII letters).
LowerChar(c) == IF c \in 65..90 THEN c + 32 ELSE c

Lower(s) == [i \in 1..Len(s) |-> LowerChar(s[i])]

(***************************************************************************)
(* String helpers.                                                         *)
(***************************************************************************)
\* s[i:] with a 1-based i
From(s, i) == SubSeq(s, i, Len(s))

\* s.startswith(p)
StartsWith(s, p) ==
    /\ Len(p) <= Len(s)
    /\ \A k \in 1..Len(p) : s[k] = p[k]

\* p in s
Contains(s, p) ==
    \E i \in 0..(Len(s) - Len(p)) : \A k \in 1..Len(p) : s[i + k] = p[k]

Min(S) == CHOOSE x \in S : \A y \in S : x <= y
Max(S) == CHOOSE x \in S : \A y \in S : x >= y

\* <<1, ..., n>>
Indices(n) == [i \in 1..n |-> i]

\* the first index >= i of s that holds no whitespace (Len(s) + 1 if none)
SkipSpace(s, i) ==
    Min({k \in i..Len(s) : ~IsSpace(s[k])} \cup {Len(s) + 1})

\* the last index <= j of s that holds no whitespace (0 if none)
SkipSpaceBack(s, j) ==
    Max({k \in 1..j : ~IsSpace(s[k])} \cup {0})

\* s.lstrip()
LStrip(s) == From(s, SkipSpace(s, 1))

\* s.rstrip()
RStrip(s) == SubSeq(s, 1, SkipSpaceBack(s, Len(s)))

\* s.strip()
Strip(s) == SubSeq(s, SkipSpace(s, 1), SkipSpaceBack(s, Len(s)))

\* s.lstrip(chars)
LStripChars(s, set) ==
    From(s, Min({k \in 1..Len(s) : s[k] \notin set} \cup {Len(s) + 1}))

\* s.split('\n'): the pieces between the line breaks, whose indices are b
Split(s) ==
    LET b == SelectSeq(Indices(Len(s)), LAMBDA i : s[i] = LF)
    IN  [k \in 1..(Len(b) + 1) |->
            SubSeq(s, IF k = 1 THEN 1 ELSE b[k - 1] + 1,
                      IF k = Len(b) + 1 THEN Len(s) ELSE b[k] - 1)]

RECURSIVE JoinFrom(_, _, _)
JoinFrom(ls, i, acc) ==
    IF i > Len(ls) THEN acc ELSE JoinFrom(ls, i + 1, acc \o <<LF>> \o ls[i])

\* '\n'.join(ls)
Join(ls) == IF ls = <<>> THEN <<>> ELSE JoinFrom(ls, 2, ls[1])

(***************************************************************************)
(* parse_transcript: preprocessing.                                        *)
(***************************************************************************)
\* text.replace('\r\n', '\n'): every CR that a LF follows is dropped
ReplaceCRLF(s) ==
    LET keep == SelectSeq(Indices(Len(s)),
                          LAMBDA i : ~(s[i] = CR /\ i < Len(s) /\ s[i + 1] = LF))
    IN  [k \in 1..Len(keep) |-> s[keep[k]]]

\* text.replace('\r', '\n')
ReplaceCR(s) == [i \in 1..Len(s) |-> IF s[i] = CR THEN LF ELSE s[i]]

NormalizeLineEndings(s) == ReplaceCR(ReplaceCRLF(s))

StripBOM(s) ==
    LET t == IF Len(s) > 0 /\ s[1] = BOM THEN Tail(s) ELSE s
    IN  LStripChars(t, {NUL, BOM})

\* "#c#"
ContextMarker == <<35, 99, 35>>

IsContextLine(line) == StartsWith(LStrip(line), ContextMarker)

RemoveContextLines(s) ==
    Join(SelectSeq(Split(s), LAMBDA line : ~IsContextLine(line)))

Preprocess(s) == RemoveContextLines(StripBOM(NormalizeLineEndings(s)))

(***************************************************************************)
(* parse_transcript: splitting on separator lines.                         *)
(***************************************************************************)
SepMin == 20

\* a whole line matching \*{20,}
IsSeparator(line) ==
    /\ Len(line) >= SepMin
    /\ \A k \in 1..Len(line) : line[k] = STAR

RECURSIVE ReSplitLines(_, _, _, _)
\* re.split(r'^\*{20,}$', text, flags=re.MULTILINE) over the lines of text:
\* a matched line is dropped, the line breaks around it stay with the pieces.
ReSplitLines(lines, i, cur, acc) ==
    IF i > Len(lines) THEN Append(acc, cur)
    ELSE LET c == IF i > 1 THEN Append(cur, LF) ELSE cur
         IN  IF IsSeparator(lines[i])
             THEN ReSplitLines(lines, i + 1, <<>>, Append(acc, c))
             ELSE ReSplitLines(lines, i + 1, c \o lines[i], acc)

\* the split without re.MULTILINE: the pattern matches the whole text only
ReSplit_NoMultiline(s) ==
    IF IsSeparator(s) \/ (Len(s) > 0 /\ s[Len(s)] = LF /\ IsSeparator(SubSeq(s, 1, Len(s) - 1)))
    THEN <<<<>>, IF IsSeparator(s) THEN <<>> ELSE <<LF>>>>
    ELSE <<s>>

ReSplit(s) == ReSplitLines(Split(s), 1, <<>>, <<>>)

(***************************************************************************)
(* parse_transcript: the prompt pattern ^PS\s+[A-Za-z]:[^\n]*>\s* under    *)
(* re.MULTILINE.                                                           *)
(***************************************************************************)
\* the first index >= i of s that holds a line break (Len(s) + 1 if none)
FindLF(s, i) == Min({k \in i..Len(s) : s[k] = LF} \cup {Len(s) + 1})

\* the last index in lo..hi of s that holds ">" (0 if none): [^\n]*> is greedy
LastGT(s, lo, hi) == Max({k \in lo..hi : s[k] = GT} \cup {0})

\* the pattern without its ^ anchor
PromptMatchEnd_Unanchored(s, p) ==
    IF ~(p + 1 <= Len(s) /\ s[p] = 80 /\ s[p + 1] = 83) THEN 0
    ELSE LET q == SkipSpace(s, p + 2)
         IN  IF q = p + 2 \/ q + 1 > Len(s) THEN 0
             ELSE IF ~(IsAsciiLetter(s[q]) /\ s[q + 1] = COLON) THEN 0
             ELSE LET g == LastGT(s, q + 2, FindLF(s, q + 2) - 1)
                  IN  IF g = 0 THEN 0 ELSE SkipSpace(s, g + 1)

\* The end of the pattern's match that starts at index p of s (the index
\* after its last character), 0 if it does not match there.
PromptMatchEnd(s, p) ==
    IF ~(p = 1 \/ s[p - 1] = LF) THEN 0
    ELSE IF ~(p + 1 <= Len(s) /\ s[p] = 80 /\ s[p + 1] = 83) THEN 0
    ELSE LET q == SkipSpace(s, p + 2)
         IN  IF q = p + 2 \/ q + 1 > Len(s) THEN 0
             ELSE IF ~(IsAsciiLetter(s[q]) /\ s[q + 1] = COLON) THEN 0
             ELSE LET g == LastGT(s, q + 2, FindLF(s, q + 2) - 1)
                  IN  IF g = 0 THEN 0 ELSE SkipSpace(s, g + 1)

\* prompt_pattern.search(block): the leftmost match's prompt_match.end() as
\* a 1-based index, 0 for None
PromptSearch(s) ==
    LET starts == {p \in 1..Len(s) : PromptMatchEnd(s, p) > 0}
    IN  IF starts = {} THEN 0 ELSE PromptMatchEnd(s, Min(starts))

\* "TerminatingError("
TerminatingError ==
    <<84, 101, 114, 109, 105, 110, 97, 116, 105, 110, 103,
      69, 114, 114, 111, 114, 40>>

\* The body of `for block in blocks`, for a stripped block: TRUE when the
\* block is appended to command_blocks.
KeepBlock(block) ==
    IF block = <<>> THEN FALSE
    ELSE LET e == PromptSearch(block)
         IN  IF e = 0 THEN FALSE
             ELSE ~StartsWith(Strip(From(block, e)), TerminatingError)

RECURSIVE CommandBlocks(_, _, _)
CommandBlocks(pieces, i, acc) ==
    IF i > Len(pieces) THEN acc
    ELSE LET block == Strip(pieces[i])
         IN  CommandBlocks(pieces, i + 1,
                           IF KeepBlock(block) THEN Append(acc, block) ELSE acc)

ParseTranscript(s) == CommandBlocks(ReSplit(Preprocess(s)), 1, <<>>)

(***************************************************************************)
(* parse_transcript, statement by statement.                               *)
(***************************************************************************)
Normalize ==
    /\ pc = "normalize"
    /\ text' = NormalizeLineEndings(text)
    /\ pc' = "strip_bom"
    /\ UNCHANGED <<src, blocks, bi, command_blocks, mainVars>>

StripBom ==
    /\ pc = "strip_bom"
    /\ text' = StripBOM(text)
    /\ pc' = "filter_lines"
    /\ UNCHANGED <<src, blocks, bi, command_blocks, mainVars>>

FilterLines ==
    /\ pc = "filter_lines"
    /\ text' = RemoveContextLines(text)
    /\ pc' = "split"
    /\ UNCHANGED <<src, blocks, bi, command_blocks, mainVars>>

SplitSeparators ==
    /\ pc = "split"
    /\ blocks' = ReSplit(text)
    /\ bi' = 0
    /\ command_blocks' = <<>>
    /\ pc' = "loop"
    /\ UNCHANGED <<src, text, mainVars>>

LoopBlock ==
    /\ pc = "loop"
    /\ bi < Len(blocks)
    /\ LET block == Strip(blocks[bi + 1])
       IN  command_blocks' =
               IF KeepBlock(block) THEN Append(command_blocks, block)
               ELSE command_blocks
    /\ bi' = bi + 1
    /\ UNCHANGED <<pc, src, text, blocks, mainVars>>

Return ==
    /\ pc = "loop"
    /\ bi = Len(blocks)
    /\ pc' = "returned"
    /\ UNCHANGED <<parseVars, mainVars>>

NextParse ==
    \/ Normalize
    \/ StripBom
    \/ FilterLines
    \/ SplitSeparators
    \/ LoopBlock
    \/ Return

(***************************************************************************)
(* Transcripts: lines joined by line breaks.                               *)
(***************************************************************************)
\* the texts of at most n lines, each line taken from `lines`
TextsOf(lines, n) ==
    { Join(ls) : ls \in UNION { [1..k -> lines] : k \in 0..n } }

\* "PS C:\x> d"
PromptLine == <<80, 83, 32, 67, 58, 92, 120, 62, 32, 100>>
\* "PS C:x> d"
NoSlashLine == <<80, 83, 32, 67, 58, 120, 62, 32, 100>>
\* " PS C:\x> d "
IndentedPromptLine == <<SP>> \o PromptLine \o <<SP>>
\* "PS"
PSLine == <<80, 83>>
\* "C:\x> d"
DriveLine == <<67, 58, 92, 120, 62, 32, 100>>
\* "a"
OutputLine == <<97>>
\* "PS C:\x> TerminatingError("
ErrorLine == <<80, 83, 32, 67, 58, 92, 120, 62, 32>> \o TerminatingError
\* a separator line of exactly SepMin asterisks
SeparatorLine == [k \in 1..SepMin |-> STAR]
\* " ********************"
IndentedSeparatorLine == <<SP>> \o SeparatorLine

\* Python's None where a text is expected
NoText == <<-1>>

\* main's variables while parse_transcript alone is run
IdleMain ==
    /\ args = [given |-> FALSE, count |-> <<>>, all |-> FALSE,
               environment |-> FALSE]
    /\ transcript_file = NoText
    /\ file = <<>>
    /\ ei = 0
    /\ encoding_used = ""
    /\ count = 0
    /\ selected_blocks = <<>>
    /\ stdout = <<>>
    /\ stderr = <<>>
    /\ exit_code = -1

\* parse_transcript(text) is entered with text = t
EnterParse(t) ==
    /\ src = t
    /\ text = t
    /\ pc = "normalize"
    /\ blocks = <<>>
    /\ bi = 0
    /\ command_blocks = <<>>
    /\ IdleMain

MaxLines == 3

ParseLines ==
    {PromptLine, NoSlashLine, IndentedPromptLine, PSLine, DriveLine,
     OutputLine, ErrorLine, SeparatorLine, IndentedSeparatorLine, <<>>}

InitParse == \E t \in TextsOf(ParseLines, MaxLines) : EnterParse(t)

SpecParse == InitParse /\ [][NextParse]_vars

(***************************************************************************)
(* Claims about the prompt marker and the segments (SpecParse).            *)
(***************************************************************************)
BSLASH == 92

Range(f) == { f[i] : i \in DOMAIN f }

IsBlank(line) == \A k \in 1..Len(line) : IsSpace(line[k])

\* A line that starts with PS, then whitespace, a drive letter, a colon, a
\* backslash, path text and ">".
IsPromptMarkerLine(line) ==
    /\ StartsWith(line, PSLine)
    /\ \E q \in 4..Len(line) :
          /\ \A k \in 3..(q - 1) : IsSpace(line[k])
          /\ q + 2 <= Len(line)
          /\ IsAsciiLetter(line[q])
          /\ line[q + 1] = COLON
          /\ line[q + 2] = BSLASH
          /\ \E g \in (q + 3)..Len(line) : line[g] = GT

\* s holds, from the start of one of its lines: PS, one or more whitespace
\* characters (line breaks among them), a letter, a colon, and a ">" further
\* on the line of the colon.  No backslash is asked for.
HasMarker(s) ==
    \E p \in 1..Len(s) :
       /\ p = 1 \/ s[p - 1] = LF
       /\ p + 1 <= Len(s)
       /\ s[p] = 80
       /\ s[p + 1] = 83
       /\ \E q \in (p + 3)..Len(s) :
             /\ \A k \in (p + 2)..(q - 1) : IsSpace(s[k])
             /\ IsAsciiLetter(s[q])
             /\ q + 1 <= Len(s)
             /\ s[q + 1] = COLON
             /\ \E g \in (q + 2)..Len(s) :
                   /\ s[g] = GT
                   /\ \A k \in (q + 2)..(g - 1) : s[k] # LF

NoSeparatorLine(s) == \A i \in DOMAIN Split(s) : ~IsSeparator(Split(s)[i])

\* C1 as claimed: a kept block holds a prompt-marker line (with its
\* backslash), and a text without separator lines and without prompt-marker
\* lines gives the empty sequence.
C1_Original ==
    /\ \A k \in 1..Len(command_blocks) :
          \E line \in Range(Split(command_blocks[k])) : IsPromptMarkerLine(line)
    /\ ( /\ pc = "returned"
         /\ NoSeparatorLine(text)
         /\ \A line \in Range(Split(text)) : ~IsPromptMarkerLine(line) )
       => command_blocks = <<>>

\* C1, amended: parse_transcript keeps a segment only if the whitespace-trimmed
\* segment holds a match of the code's pattern (PS at a line start, whitespace
\* that may include line breaks, a letter, a colon, any text and ">" on that
\* line; no backslash needed); every consumed segment without one is
\* discarded, and a preprocessed text without separator lines whose trimmed
\* form has no such match gives the empty sequence.
C1_KeptOnlyWithMarker ==
    /\ \A k \in 1..Len(command_blocks) :
          /\ HasMarker(command_blocks[k])
          /\ \E i \in 1..bi : command_blocks[k] = Strip(blocks[i])
    /\ pc \in {"loop", "returned"} =>
          Len(command_blocks) <=
              Cardinality({i \in 1..bi : HasMarker(Strip(blocks[i]))})
    /\ ( /\ pc = "returned"
         /\ NoSeparatorLine(text)
         /\ ~HasMarker(Strip(text)) )
       => command_blocks = <<>>

\* a segment without a marker was dropped and one that has a marker (and no
\* backslash) was kept
C1_Witness ==
    /\ pc = "returned"
    /\ Len(blocks) = 2
    /\ Strip(blocks[1]) # <<>>
    /\ ~HasMarker(Strip(blocks[1]))
    /\ command_blocks = <<NoSlashLine>>

\* block is lines[a..b], the first line without its leading and the last
\* without its trailing whitespace; lines[a..b] holds no separator line,
\* starts and ends with a non-blank line, and only blank lines lie between
\* it and the separator lines (or the text's ends) around it.
IsTrimmedSegment(block, lines, a, b) ==
    LET bl == Split(block)
    IN  /\ a <= b
        /\ Len(bl) = b - a + 1
        /\ \A i \in a..b : ~IsSeparator(lines[i])
        /\ ~IsBlank(lines[a])
        /\ ~IsBlank(lines[b])
        /\ \A j \in 1..Len(bl) :
              bl[j] = IF a = b THEN Strip(lines[a])
                      ELSE IF j = 1 THEN LStrip(lines[a])
                      ELSE IF j = Len(bl) THEN RStrip(lines[b])
                      ELSE lines[a + j - 1]
        /\ \A i \in 1..(a - 1) :
              IsBlank(lines[i]) \/ \E j \in i..(a - 1) : IsSeparator(lines[j])
        /\ \A i \in (b + 1)..Len(lines) :
              IsBlank(lines[i]) \/ \E j \in (b + 1)..i : IsSeparator(lines[j])

\* C10 as claimed: no line of a block is a separator line, and every line of
\* a block is, unaltered, a line of the preprocessed transcript.
C10_Original ==
    pc = "returned" =>
        \A k \in 1..Len(command_blocks) :
            \A line \in Range(Split(command_blocks[k])) :
                /\ ~IsSeparator(line)
                /\ line \in Range(Split(text))

\* C10, amended: every returned block is the text between two consecutive
\* separator lines (or the text's ends) of the preprocessed transcript with
\* its leading and trailing whitespace removed: its lines are transcript
\* lines, none of them a separator line, unaltered but for the leading
\* whitespace of the first and the trailing whitespace of the last; blocks
\* come in transcript order.
C10_BlocksAreTrimmedSegments ==
    pc = "returned" =>
        LET lines == Split(text)
            n == Len(lines)
        IN  \A k \in 1..Len(command_blocks) :
                \E a \in 1..n, b \in 1..n :
                    /\ IsTrimmedSegment(command_blocks[k], lines, a, b)
                    /\ k < Len(command_blocks) =>
                          \E a2 \in (b + 1)..n, b2 \in (b + 1)..n :
                              IsTrimmedSegment(command_blocks[k + 1], lines,
                                               a2, b2)

\* two blocks around a separator line, one of them with a line that lost
\* whitespace
C10_Witness ==
    /\ pc = "returned"
    /\ Len(command_blocks) = 2
    /\ ~NoSeparatorLine(text)
    /\ \E k \in 1..2 :
          \E line \in Range(Split(command_blocks[k])) :
              line \notin Range(Split(text))

(***************************************************************************)
(* Claims about interruption errors (SpecError).                           *)
(***************************************************************************)
\* "PS C:\x> TerminatingError(): a>b"
ErrorQuoteLine == ErrorLine \o <<41, 58, 32, 97, GT, 98>>
\* "PS C:\x> d >"
RedirectLine == PromptLine \o <<SP, GT>>
\* "TerminatingError("
TokenLine == TerminatingError

MaxErrorLines == 3

ErrorLines ==
    {PromptLine, ErrorLine, ErrorQuoteLine, RedirectLine, TokenLine,
     OutputLine, SeparatorLine}

InitError == \E t \in TextsOf(ErrorLines, MaxErrorLines) : EnterParse(t)

SpecError == InitError /\ [][NextParse]_vars

\* The text that follows the first prompt marker of s, trimmed: the marker
\* runs from PS at a line start to the first ">" after the drive's colon.
AfterFirstMarker(s) ==
    LET p == Min({i \in 1..Len(s) : PromptMatchEnd(s, i) > 0})
        q == SkipSpace(s, p + 2)
        g == Min({k \in (q + 2)..Len(s) : s[k] = GT})
    IN  Strip(From(s, g + 1))

\* C2 as claimed: of the segments that hold a prompt marker, exactly those
\* whose text right after the first marker begins with TerminatingError( are
\* excluded; the others are the blocks returned.
C2_Original ==
    pc = "returned" =>
        command_blocks =
            SelectSeq([i \in 1..Len(blocks) |-> Strip(blocks[i])],
                      LAMBDA b : /\ HasMarker(b)
                                 /\ ~StartsWith(AfterFirstMarker(b),
                                                TerminatingError))

(***************************************************************************)
(* Claims about preprocessing (SpecPre): texts made of chunks.             *)
(***************************************************************************)
RECURSIVE Concat(_)
Concat(ss) == IF ss = <<>> THEN <<>> ELSE Head(ss) \o Concat(Tail(ss))

\* the texts made of at most n chunks
ChunkTexts(chunks, n) ==
    { Concat(cs) : cs \in UNION { [1..k -> chunks] : k \in 0..n } }

MaxChunks == 4

PreChunks ==
    {ContextMarker, <<BOM>>, <<NUL>>, <<LF>>, <<CR>>, <<SP>>, PromptLine}

InitPre == \E t \in ChunkTexts(PreChunks, MaxChunks) : EnterParse(t)

SpecPre == InitPre /\ [][NextParse]_vars

\* C6 as claimed: preprocessing applied to its own result changes nothing.
C6_Original ==
    pc \in {"split", "loop", "returned"} => Preprocess(text) = text

\* the transcript with its "#c#" lines deleted beforehand
DeleteContextLines(s) == RemoveContextLines(NormalizeLineEndings(s))

\* C9 as claimed: no returned block holds a "#c#" line, and the blocks are
\* those of the transcript with its "#c#" lines deleted beforehand.
C9_Original ==
    pc = "returned" =>
        /\ \A k \in 1..Len(command_blocks) :
              \A line \in Range(Split(command_blocks[k])) : ~IsContextLine(line)
        /\ command_blocks = ParseTranscript(DeleteContextLines(src))

(***************************************************************************)
(* filter_self_referential, the selection of main, format_output.          *)
(***************************************************************************)
\* "context"
ContextWord == <<99, 111, 110, 116, 101, 120, 116>>

\* [l.strip() for l in last_block.split('\n') if l.strip()]
NonBlankLines(block) ==
    SelectSeq([i \in 1..Len(Split(block)) |-> Strip(Split(block)[i])],
              LAMBDA l : l # <<>>)

\* the filter without .lower()
FilterSelfReferential_CaseSensitive(bs) ==
    IF bs = <<>> THEN bs
    ELSE LET lines == NonBlankLines(bs[Len(bs)])
         IN  IF Len(lines) <= 2 /\ Contains(Join(lines), ContextWord)
             THEN SubSeq(bs, 1, Len(bs) - 1)
             ELSE bs

FilterSelfReferential(bs) ==
    IF bs = <<>> THEN bs
    ELSE LET lines == NonBlankLines(bs[Len(bs)])
         IN  IF Len(lines) <= 2 /\ Contains(Lower(Join(lines)), ContextWord)
             THEN SubSeq(bs, 1, Len(bs) - 1)
             ELSE bs

\* main's count when the whole history is asked for (count = None)
CountAll == 0

\* the selection with blocks[:count] for blocks[-count:]
SelectBlocks_FromStart(bs, n) ==
    IF n = CountAll THEN bs
    ELSE IF bs = <<>> THEN <<>>
    ELSE SubSeq(bs, 1, IF n < Len(bs) THEN n ELSE Len(bs))

\* blocks if count is None, else blocks[-count:] if blocks else []
SelectBlocks(bs, n) ==
    IF n = CountAll THEN bs
    ELSE IF bs = <<>> THEN <<>>
    ELSE SubSeq(bs, IF n < Len(bs) THEN Len(bs) - n + 1 ELSE 1, Len(bs))

\* "#c# "
Prefix == <<35, 99, 35, 32>>

\* "#c# No commands found in transcript."
NoCommands ==
    <<35, 99, 35, 32, 78, 111, 32, 99, 111, 109, 109, 97, 110, 100, 115, 32,
      102, 111, 117, 110, 100, 32, 105, 110, 32, 116, 114, 97, 110, 115, 99,
      114, 105, 112, 116, 46>>

\* the lines format_output appends for one block
FormatBlock(block) ==
    LET lines == Split(block)
    IN  [j \in 1..(Len(lines) + 1) |->
            IF j <= Len(lines) THEN Prefix \o lines[j] ELSE Prefix]

\* format_output that separates the blocks but adds no line after the last
FormatOutput_NoLastSeparator(bs) ==
    IF bs = <<>> THEN NoCommands
    ELSE LET all == Concat([k \in 1..Len(bs) |-> FormatBlock(bs[k])])
         IN  Join(SubSeq(all, 1, Len(all) - 1))

FormatOutput(bs) ==
    IF bs = <<>> THEN NoCommands
    ELSE Join(Concat([k \in 1..Len(bs) |-> FormatBlock(bs[k])]))

(***************************************************************************)
(* main: the count argument.                                               *)
(***************************************************************************)
MINUS == 45
PLUS == 43
UNDERSCORE == 95
ZERO == 48

\* "all"
All == <<97, 108, 108>>

IsDigit(c) == c \in 48..57

RECURSIVE DecimalValue(_)
DecimalValue(d) ==
    IF d = <<>> THEN 0
    ELSE 10 * DecimalValue(SubSeq(d, 1, Len(d) - 1)) + (d[Len(d)] - ZERO)

\* int(s) for a string s: ok is FALSE where int raises ValueError
ParseInt(s) ==
    LET t == Strip(s)
        signed == Len(t) > 0 /\ t[1] \in {PLUS, MINUS}
        body == IF signed THEN Tail(t) ELSE t
        ok == /\ body # <<>>
              /\ \A k \in 1..Len(body) : IsDigit(body[k]) \/ body[k] = UNDERSCORE
              /\ IsDigit(body[1])
              /\ IsDigit(body[Len(body)])
              /\ \A k \in 1..(Len(body) - 1) :
                    ~(body[k] = UNDERSCORE /\ body[k + 1] = UNDERSCORE)
        v == DecimalValue(SelectSeq(body, IsDigit))
    IN  [ok |-> ok,
         val |-> IF ~ok THEN 0 ELSE IF signed /\ t[1] = MINUS THEN -v ELSE v]

\* int(args.count); the default of the count argument is the integer 1
CountInt(a) == IF a.given THEN ParseInt(a.count) ELSE [ok |-> TRUE, val |-> 1]

\* args.all or args.count == 'all'
ShowAll(a) == a.all \/ (a.given /\ a.count = All)

\* the coercion that takes a negative count as it is
CoerceCount_NoAbs(v) == v

\* if count < 0: count = abs(count)
CoerceCount(v) == IF v < 0 THEN -v ELSE v

\* the try block of main passes: the count is an integer and, coerced, >= 1
CountAccepted(a) == CountInt(a).ok /\ CoerceCount(CountInt(a).val) >= 1

\* What argparse hands over as the positional count: a string that starts
\* with "-" is taken for an option unless it is "-" alone or looks like a
\* negative number (-\d+).
IsPositionalArg(s) ==
    IF Len(s) <= 1 THEN TRUE
    ELSE s[1] # MINUS \/ \A k \in 2..Len(s) : IsDigit(s[k])

(***************************************************************************)
(* main: reading the transcript.                                           *)
(***************************************************************************)
Encodings == <<"utf-8", "utf-16-le", "utf-16-be", "cp1252", "latin-1">>

\* what a decoder that raised UnicodeDecodeError stands for
Undecodable == <<-2>>

IsContinuation(b) == b \in 128..191

\* the length of the UTF-8 sequence that byte b leads, 0 if b leads none
Utf8Len(b) ==
    IF b < 128 THEN 1
    ELSE IF b \in 194..223 THEN 2
    ELSE IF b \in 224..239 THEN 3
    ELSE IF b \in 240..244 THEN 4
    ELSE 0

Utf8SecondOK(b1, b2) ==
    IF b1 = 224 THEN b2 \in 160..191
    ELSE IF b1 = 237 THEN b2 \in 128..159
    ELSE IF b1 = 240 THEN b2 \in 144..191
    ELSE IF b1 = 244 THEN b2 \in 128..143
    ELSE IsContinuation(b2)

\* a well-formed sequence starts at index i of bs and a new one (or the end)
\* follows it
Utf8WellFormedAt(bs, i) ==
    LET n == Utf8Len(bs[i])
    IN  /\ n > 0
        /\ i + n - 1 <= Len(bs)
        /\ n >= 2 => Utf8SecondOK(bs[i], bs[i + 1])
        /\ \A k \in 2..(n - 1) : IsContinuation(bs[i + k])
        /\ i + n <= Len(bs) => ~IsContinuation(bs[i + n])

Utf8CodePoint(bs, i) ==
    LET n == Utf8Len(bs[i])
    IN  IF n = 1 THEN bs[i]
        ELSE IF n = 2 THEN (bs[i] - 192) * 64 + (bs[i + 1] - 128)
        ELSE IF n = 3
             THEN (bs[i] - 224) * 4096 + (bs[i + 1] - 128) * 64
                  + (bs[i + 2] - 128)
        ELSE (bs[i] - 240) * 262144 + (bs[i + 1] - 128) * 4096
             + (bs[i + 2] - 128) * 64 + (bs[i + 3] - 128)

DecodeUtf8(bs) ==
    LET leads == SelectSeq(Indices(Len(bs)), LAMBDA i : ~IsContinuation(bs[i]))
    IN  IF \/ Len(bs) > 0 /\ IsContinuation(bs[1])
           \/ \E k \in 1..Len(leads) : ~Utf8WellFormedAt(bs, leads[k])
        THEN Undecodable
        ELSE [k \in 1..Len(leads) |-> Utf8CodePoint(bs, leads[k])]

IsHighSurrogate(u) == u \in 55296..56319
IsLowSurrogate(u) == u \in 56320..57343

\* the 16-bit units of bs, little endian (le) or big endian
Utf16Units(bs, le) ==
    [k \in 1..(Len(bs) \div 2) |->
        IF le THEN bs[2 * k - 1] + 256 * bs[2 * k]
        ELSE 256 * bs[2 * k - 1] + bs[2 * k]]

DecodeUtf16(bs, le) ==
    LET u == Utf16Units(bs, le)
        n == Len(u)
        starts == SelectSeq(Indices(n), LAMBDA k : ~IsLowSurrogate(u[k]))
    IN  IF \/ Len(bs) % 2 = 1
           \/ \E k \in 1..n :
                 \/ IsHighSurrogate(u[k]) /\ (k = n \/ ~IsLowSurrogate(u[k + 1]))
                 \/ IsLowSurrogate(u[k]) /\ (k = 1 \/ ~IsHighSurrogate(u[k - 1]))
        THEN Undecodable
        ELSE [j \in 1..Len(starts) |->
                 LET k == starts[j]
                 IN  IF IsHighSurrogate(u[k])
                     THEN 65536 + (u[k] - 55296) * 1024 + (u[k + 1] - 56320)
                     ELSE u[k]]

\* cp1252 for the bytes 128..159; -1 where the code page defines nothing
Cp1252High ==
    <<8364, -1, 8218, 402, 8222, 8230, 8224, 8225, 710, 8240, 352, 8249, 338,
      -1, 381, -1, -1, 8216, 8217, 8220, 8221, 8226, 8211, 8212, 732, 8482,
      353, 8250, 339, -1, 382, 376>>

Cp1252Char(b) == IF b \in 128..159 THEN Cp1252High[b - 127] ELSE b

DecodeCp1252(bs) ==
    IF \E k \in 1..Len(bs) : Cp1252Char(bs[k]) = -1 THEN Undecodable
    ELSE [k \in 1..Len(bs) |-> Cp1252Char(bs[k])]

Decode(encoding, bs) ==
    IF encoding = "utf-8" THEN DecodeUtf8(bs)
    ELSE IF encoding = "utf-16-le" THEN DecodeUtf16(bs, TRUE)
    ELSE IF encoding = "utf-16-be" THEN DecodeUtf16(bs, FALSE)
    ELSE IF encoding = "cp1252" THEN DecodeCp1252(bs)
    ELSE bs

\* open(transcript_file, 'r', encoding=encoding).read(): the decoded text
\* with the line endings translated (text mode), or Undecodable
ReadAs(encoding, bs) ==
    LET t == Decode(encoding, bs)
    IN  IF t = Undecodable THEN Undecodable ELSE NormalizeLineEndings(t)

\* "****"
FourStars == <<STAR, STAR, STAR, STAR>>

\* '****' in text or re.search(r'PS\s+[A-Za-z]:', text)
LooksLikeTranscript(t) ==
    \/ Contains(t, FourStars)
    \/ \E p \in 1..(Len(t) - 1) :
          /\ t[p] = 80
          /\ t[p + 1] = 83
          /\ LET q == SkipSpace(t, p + 2)
             IN  /\ q > p + 2
                 /\ q + 1 <= Len(t)
                 /\ IsAsciiLetter(t[q])
                 /\ t[q + 1] = COLON

\* the failed validity check keeps the text it read
AfterRejected_Keep(t) == t

\* text = None after a text that decoded but does not look like a transcript
AfterRejected(t) == NoText

(***************************************************************************)
(* main, statement by statement.  --debug only adds messages on standard   *)
(* error and is left out.                                                  *)
(***************************************************************************)
\* "$env:TRANSCRIPT_LOG_FILE = '"
EnvPrefix ==
    <<36, 101, 110, 118, 58, 84, 82, 65, 78, 83, 67, 82, 73, 80, 84, 95, 76,
      79, 71, 95, 70, 73, 76, 69, 32, 61, 32, 39>>

EnvCmd(path) == EnvPrefix \o path \o <<39>>

\* sys.exit(code) after the message msg on standard error
Exit(code, msg) ==
    /\ pc' = "exited"
    /\ exit_code' = code
    /\ stderr' = Append(stderr, msg)

\* -e / --environment; whether clip is there to copy to is the system's
EnvironmentFlag ==
    /\ pc = "start"
    /\ args.environment
    /\ IF transcript_file # NoText
       THEN /\ stdout' = Append(stdout, EnvCmd(transcript_file))
            /\ \E copied \in BOOLEAN :
                  stderr' = IF copied
                            THEN Append(stderr, "# Command copied to clipboard")
                            ELSE stderr
            /\ pc' = "exited"
            /\ exit_code' = 0
       ELSE /\ Exit(1, "# No PowerShell transcript found")
            /\ stdout' = stdout
    /\ UNCHANGED <<parseVars, args, transcript_file, file, ei, encoding_used,
                   count, selected_blocks>>

AcceptCount ==
    /\ pc = "start"
    /\ ~args.environment
    /\ ShowAll(args) \/ CountAccepted(args)
    /\ count' = IF ShowAll(args) THEN CountAll
                ELSE CoerceCount(CountInt(args).val)
    /\ stderr' = IF ~ShowAll(args) /\ CountInt(args).val < 0
                 THEN Append(stderr, "#c# context usage note")
                 ELSE stderr
    /\ pc' = "locate"
    /\ UNCHANGED <<parseVars, args, transcript_file, file, ei, encoding_used,
                   selected_blocks, stdout, exit_code>>

RejectCount ==
    /\ pc = "start"
    /\ ~args.environment
    /\ ~ShowAll(args)
    /\ ~CountAccepted(args)
    /\ Exit(1, "Error: Please provide a positive number or 'all'")
    /\ UNCHANGED <<parseVars, args, transcript_file, file, ei, encoding_used,
                   count, selected_blocks, stdout>>

NoTranscript ==
    /\ pc = "locate"
    /\ transcript_file = NoText
    /\ Exit(1, "Error: No PowerShell transcript found.")
    /\ UNCHANGED <<parseVars, args, transcript_file, file, ei, encoding_used,
                   count, selected_blocks, stdout>>

StartReading ==
    /\ pc = "locate"
    /\ transcript_file # NoText
    /\ text' = NoText
    /\ encoding_used' = ""
    /\ ei' = 0
    /\ pc' = "read"
    /\ UNCHANGED <<src, blocks, bi, command_blocks, args, transcript_file,
                   file, count, selected_blocks, stdout, stderr, exit_code>>

\* one round of `for encoding in encodings_to_try`
TryEncoding ==
    /\ pc = "read"
    /\ ei < Len(Encodings)
    /\ ei' = ei + 1
    /\ LET encoding == Encodings[ei + 1]
           t == ReadAs(encoding, file)
       IN  IF t = Undecodable
           THEN UNCHANGED <<text, encoding_used, pc>>
           ELSE IF LooksLikeTranscript(t)
           THEN /\ text' = t
                /\ encoding_used' = encoding
                /\ pc' = "loaded"
           ELSE /\ text' = AfterRejected(t)
                /\ UNCHANGED <<encoding_used, pc>>
    /\ UNCHANGED <<src, blocks, bi, command_blocks, args, transcript_file,
                   file, count, selected_blocks, stdout, stderr, exit_code>>

\* open or read raises something that is no UnicodeError
ReadError ==
    /\ pc = "read"
    /\ ei < Len(Encodings)
    /\ ei' = ei + 1
    /\ Exit(1, "Error reading transcript")
    /\ UNCHANGED <<parseVars, args, transcript_file, file, encoding_used,
                   count, selected_blocks, stdout>>

\* the loop ends without a break
EncodingsExhausted ==
    /\ pc = "read"
    /\ ei = Len(Encodings)
    /\ pc' = "loaded"
    /\ UNCHANGED <<parseVars, mainVars>>

DecodeFailure ==
    /\ pc = "loaded"
    /\ text = NoText
    /\ Exit(1, "Error: Could not decode transcript with any known encoding")
    /\ UNCHANGED <<parseVars, args, transcript_file, file, ei, encoding_used,
                   count, selected_blocks, stdout>>

\* blocks = parse_transcript(text)
Extract ==
    /\ pc = "loaded"
    /\ text # NoText
    /\ src' = text
    /\ blocks' = ParseTranscript(text)
    /\ pc' = "filter"
    /\ UNCHANGED <<text, bi, command_blocks, mainVars>>

\* blocks = filter_self_referential(blocks)
FilterSelf ==
    /\ pc = "filter"
    /\ blocks' = FilterSelfReferential(blocks)
    /\ pc' = "select"
    /\ UNCHANGED <<src, text, bi, command_blocks, mainVars>>

Select ==
    /\ pc = "select"
    /\ selected_blocks' = SelectBlocks(blocks, count)
    /\ pc' = "print"
    /\ UNCHANGED <<parseVars, args, transcript_file, file, ei, encoding_used,
                   count, stdout, stderr, exit_code>>

\* print(format_output(selected_blocks)) and the end of main
Display ==
    /\ pc = "print"
    /\ stdout' = Append(stdout, FormatOutput(selected_blocks))
    /\ pc' = "exited"
    /\ exit_code' = 0
    /\ UNCHANGED <<parseVars, args, transcript_file, file, ei, encoding_used,
                   count, selected_blocks, stderr>>

NextMain ==
    \/ EnvironmentFlag
    \/ AcceptCount
    \/ RejectCount
    \/ NoTranscript
    \/ StartReading
    \/ TryEncoding
    \/ ReadError
    \/ EncodingsExhausted
    \/ DecodeFailure
    \/ Extract
    \/ FilterSelf
    \/ Select
    \/ Display

\* main is entered with the namespace a, the located transcript tf (NoText
\* if none was found) and the bytes f in that file
EnterMain(a, tf, f) ==
    /\ pc = "start"
    /\ args = a
    /\ transcript_file = tf
    /\ file = f
    /\ src = <<>>
    /\ text = NoText
    /\ blocks = <<>>
    /\ bi = 0
    /\ command_blocks = <<>>
    /\ ei = 0
    /\ encoding_used = ""
    /\ count = 0
    /\ selected_blocks = <<>>
    /\ stdout = <<>>
    /\ stderr = <<>>
    /\ exit_code = -1

(***************************************************************************)
(* Runs of main.                                                           *)
(***************************************************************************)
\* the strings of at most n characters over `chars`
Strings(chars, n) == UNION { [1..k -> chars] : k \in 0..n }

\* no count argument, no flag
DefaultArgs ==
    [given |-> FALSE, count |-> <<>>, all |-> FALSE, environment |-> FALSE]

CountArgs(s) ==
    [given |-> TRUE, count |-> s, all |-> FALSE, environment |-> FALSE]

\* the path find_transcript_file returns when it finds a transcript: "f"
Path == <<102>>

\* "Start"
HeaderLine == <<83, 116, 97, 114, 116>>

\* a transcript: the header between separator lines, then the segments,
\* a separator line after each
Transcript(segments) ==
    Join(<<SeparatorLine, HeaderLine, SeparatorLine>>
         \o Concat([k \in 1..Len(segments) |-> <<segments[k], SeparatorLine>>]))

\* runs that take the other ways through main: -e with and without a
\* transcript, a rejected count, no transcript, a file that is no transcript
EdgeRuns ==
    { [args |-> [DefaultArgs EXCEPT !.environment = TRUE],
       tf |-> Path, file |-> Transcript(<<PromptLine>>)],
      [args |-> [DefaultArgs EXCEPT !.environment = TRUE],
       tf |-> NoText, file |-> <<>>],
      [args |-> CountArgs(<<ZERO>>),
       tf |-> Path, file |-> Transcript(<<PromptLine>>)],
      [args |-> DefaultArgs, tf |-> NoText, file |-> <<>>],
      [args |-> DefaultArgs, tf |-> Path, file |-> OutputLine] }

InitEdge == \E r \in EdgeRuns : EnterMain(r.args, r.tf, r.file)

HasMessage(m) == \E k \in 1..Len(stderr) : stderr[k] = m

\* main came to its last statement and printed the blocks
Displayed == pc = "exited" /\ exit_code = 0 /\ ~args.environment

(***************************************************************************)
(* Claims about reading the transcript (SpecRead): files made of chunks of *)
(* bytes.                                                                  *)
(***************************************************************************)
\* "PS C:" in ASCII
AsciiPrompt == <<80, 83, 32, 67, 58>>
\* "****" in UTF-16, little and big endian
LeStars == <<42, 0, 42, 0, 42, 0, 42, 0>>
BeStars == <<0, 42, 0, 42, 0, 42, 0, 42>>
\* the byte order marks of UTF-16
LeBom == <<255, 254>>
BeBom == <<254, 255>>

ByteChunks ==
    {FourStars, AsciiPrompt, OutputLine, LeStars, BeStars, LeBom, BeBom,
     <<129>>, <<233>>, <<195, 169>>}

MaxFileChunks == 2

InitRead ==
    \/ \E f \in ChunkTexts(ByteChunks, MaxFileChunks) :
          EnterMain(DefaultArgs, Path, f)
    \/ InitEdge

SpecRead == InitRead /\ [][NextMain]_vars

\* the order of the encodings, as claimed
ClaimedOrder == <<"utf-8", "utf-16-le", "utf-16-be", "cp1252", "latin-1">>

\* the file decodes under the i-th encoding and the text passes the check
Succeeds(i) ==
    LET t == ReadAs(ClaimedOrder[i], file)
    IN  t # Undecodable /\ LooksLikeTranscript(t)

DecodeMessage == "Error: Could not decode transcript with any known encoding"

\* C8: the encodings are tried in the order utf-8, utf-16-le, utf-16-be,
\* cp1252, latin-1; while the loop runs every encoding tried so far has
\* failed and text is None; the loop stops at the first encoding that
\* decodes and passes the validity check, the text handed to
\* parse_transcript is the text read under that encoding, and the run ends
\* with the decode error and exit code 1 exactly if no encoding succeeds.
C8_FirstSuccessfulEncoding ==
    LET ok == {i \in 1..Len(ClaimedOrder) : Succeeds(i)}
        first == IF ok = {} THEN 0 ELSE Min(ok)
        read == \/ pc \in {"loaded", "filter", "select", "print"}
                \/ /\ pc = "exited"
                   /\ ei > 0
                   /\ ~HasMessage("Error reading transcript")
    IN  /\ pc = "read" =>
              /\ text = NoText
              /\ \A i \in 1..ei : ~Succeeds(i)
        /\ read /\ first = 0 =>
              /\ text = NoText
              /\ ei = Len(ClaimedOrder)
              /\ pc \in {"loaded", "exited"}
              /\ pc = "exited" => exit_code = 1 /\ HasMessage(DecodeMessage)
        /\ read /\ first # 0 =>
              /\ text = ReadAs(ClaimedOrder[first], file)
              /\ encoding_used = ClaimedOrder[first]
              /\ ei = first
              /\ ~HasMessage(DecodeMessage)
              /\ pc = "exited" => exit_code = 0
              /\ pc \in {"filter", "select", "print", "exited"} =>
                    /\ src = text
                    /\ blocks = IF pc = "filter" THEN ParseTranscript(src)
                                ELSE FilterSelfReferential(ParseTranscript(src))

\* utf-16-be was used after utf-16-le had decoded the file to a text that
\* did not pass the check
C8_Witness ==
    /\ pc = "exited"
    /\ exit_code = 0
    /\ encoding_used = "utf-16-be"
    /\ ReadAs("utf-16-le", file) # Undecodable
    /\ text # ReadAs("utf-16-le", file)

(***************************************************************************)
(* Claims about the count argument (SpecCount).                            *)
(***************************************************************************)
\* "PS C:\x> e", "PS C:\x> f"
PromptLineE == <<80, 83, 32, 67, 58, 92, 120, 62, 32, 101>>
PromptLineF == <<80, 83, 32, 67, 58, 92, 120, 62, 32, 102>>

\* a transcript of three blocks
CountFile == Transcript(<<PromptLine, PromptLineE, PromptLineF>>)

\* "-", "0", "2", "a", "l"
ArgChars == {MINUS, ZERO, 50, 97, 108}

MaxArgLen == 3

InitCount ==
    \/ \E s \in Strings(ArgChars, MaxArgLen), a \in BOOLEAN :
          /\ IsPositionalArg(s)
          /\ EnterMain([CountArgs(s) EXCEPT !.all = a], Path, CountFile)
    \/ InitEdge

SpecCount == InitCount /\ [][NextMain]_vars

\* s is written as an integer: an optional sign and decimal digits
IsIntegerLiteral(s) ==
    LET body == IF s # <<>> /\ s[1] \in {PLUS, MINUS} THEN Tail(s) ELSE s
    IN  /\ body # <<>>
        /\ \A k \in 1..Len(body) : IsDigit(body[k])

IsZeroLiteral(s) ==
    /\ IsIntegerLiteral(s)
    /\ \A k \in 1..Len(s) : s[k] \in {PLUS, MINUS, ZERO}

\* the count argument is zero, or neither an integer nor "all"
BadCount(a) ==
    /\ a.given
    /\ a.count # All
    /\ ~IsIntegerLiteral(a.count) \/ IsZeroLiteral(a.count)

RECURSIVE Decimal(_)
\* n >= 0 in decimal digits
Decimal(n) ==
    IF n < 10 THEN <<ZERO + n>> ELSE Append(Decimal(n \div 10), ZERO + (n % 10))

\* sel is the last min(n, Len(bs)) elements of bs, in their order
IsLastN(sel, bs, n) ==
    /\ Len(sel) = IF n < Len(bs) THEN n ELSE Len(bs)
    /\ \A j \in 1..Len(sel) : sel[j] = bs[Len(bs) - Len(sel) + j]

RejectMessage == "Error: Please provide a positive number or 'all'"

\* the run ended with exit code 1 at the count validation, or has not yet
\* moved: no transcript was read and nothing was printed
EndsUnread ==
    /\ pc \in {"start", "exited"}
    /\ pc = "exited" => exit_code = 1 /\ HasMessage(RejectMessage)
    /\ ei = 0
    /\ text = NoText
    /\ stdout = <<>>

MaxCountValue == 222

\* a negative count -n and the count n both make main select with n
SelectsAsPositive ==
    \A n \in 1..MaxCountValue :
        ( /\ args.given
          /\ ~args.all
          /\ args.count \in {Decimal(n), <<MINUS>> \o Decimal(n)} )
        => /\ pc # "start" => count = n
           /\ pc = "print" \/ Displayed => IsLastN(selected_blocks, blocks, n)

\* C7 as claimed: without -e, a count that is zero or neither an integer nor
\* "all" ends the run with exit code 1 before anything is read or printed.
C7_Original ==
    ~args.environment =>
        /\ BadCount(args) => EndsUnread
        /\ ~BadCount(args) => ~HasMessage(RejectMessage)
        /\ SelectsAsPositive

\* C7, amended: with neither -e nor -a/--all given, a count that is zero or
\* neither an integer nor "all" ends the run with exit code 1 before any
\* transcript is read or any block is printed (with -a the count argument is
\* not looked at); a negative count -N is not rejected and the run selects
\* as for N; a positive integer, "all" or -a is accepted.
C7_CountValidation ==
    ~args.environment =>
        /\ BadCount(args) /\ ~args.all => EndsUnread
        /\ ~BadCount(args) \/ args.all => ~HasMessage(RejectMessage)
        /\ SelectsAsPositive

\* the count -2 went through and the last two blocks were printed
C7_Witness ==
    /\ Displayed
    /\ ~args.all
    /\ args.count = <<MINUS, 50>>
    /\ count = 2
    /\ selected_blocks = <<PromptLineE, PromptLineF>>

(***************************************************************************)
(* Claims about the filter, the selection and the formatter (SpecSelect):  *)
(* transcripts made of blocks.                                             *)
(***************************************************************************)
\* "PS C:\x> Context"
ContextBlock ==
    <<80, 83, 32, 67, 58, 92, 120, 62, 32, 67, 111, 110, 116, 101, 120, 116>>
\* "PS C:\x> contexts"
ContextsBlock ==
    <<80, 83, 32, 67, 58, 92, 120, 62, 32, 99, 111, 110, 116, 101, 120, 116,
      115>>
\* "PS C:\x> dir", "out"
DirBlock ==
    <<80, 83, 32, 67, 58, 92, 120, 62, 32, 100, 105, 114, 10, 111, 117, 116>>
\* "PS C:\x> dir", "", "context"
SpacedBlock ==
    <<80, 83, 32, 67, 58, 92, 120, 62, 32, 100, 105, 114, 10, 10, 99, 111,
      110, 116, 101, 120, 116>>
\* "PS C:\x> dir", "context", "", "out"
LongBlock ==
    <<80, 83, 32, 67, 58, 92, 120, 62, 32, 100, 105, 114, 10, 99, 111, 110,
      116, 101, 120, 116, 10, 10, 111, 117, 116>>

BlockTexts == {ContextBlock, ContextsBlock, DirBlock, SpacedBlock, LongBlock}

MaxBlocks == 3
MaxCount == 3

InitSelect ==
    \/ \E bs \in Strings(BlockTexts, MaxBlocks),
          c \in {Decimal(n) : n \in 1..MaxCount} \cup {All} :
          EnterMain(CountArgs(c), Path, Transcript(bs))
    \/ InitEdge

SpecSelect == InitSelect /\ [][NextMain]_vars

\* block has at most 2 lines that are not blank
IsShort(block) ==
    Cardinality({i \in 1..Len(Split(block)) : ~IsBlank(Split(block)[i])}) <= 2

\* w occurs in s at offset i, whatever the case of s
OccursAt(s, w, i) ==
    /\ i + Len(w) <= Len(s)
    /\ \A k \in 1..Len(w) : LowerChar(s[i + k]) = w[k]

\* a letter, a digit or an underscore
IsWordChar(c) == IsAsciiLetter(c) \/ IsDigit(c) \/ c = UNDERSCORE

\* w occurs in s as a whole word
OccursAsWord(s, w) ==
    \E i \in 0..Len(s) :
        /\ OccursAt(s, w, i)
        /\ i = 0 \/ ~IsWordChar(s[i])
        /\ i + Len(w) = Len(s) \/ ~IsWordChar(s[i + Len(w) + 1])

\* the filter has run on the blocks of the text
Filtered == pc \in {"select", "print"} \/ Displayed

\* C3 as claimed: the final block is removed exactly if it has at most 2
\* non-blank lines and holds "context" as a whole word.
C3_Original ==
    Filtered =>
        LET before == ParseTranscript(text)
            n == Len(before)
        IN  blocks = IF /\ n > 0
                        /\ IsShort(before[n])
                        /\ OccursAsWord(before[n], ContextWord)
                     THEN SubSeq(before, 1, n - 1)
                     ELSE before

\* C3, amended: filter_self_referential removes the final block if and only
\* if that block has at most 2 non-blank lines and its case-insensitive text
\* contains "context" anywhere, also inside a longer word; every other block
\* is returned unchanged and in order, and at most one block is removed.
C3_RemovesShortContextBlock ==
    Filtered =>
        LET before == ParseTranscript(text)
            n == Len(before)
        IN  blocks = IF /\ n > 0
                        /\ IsShort(before[n])
                        /\ \E i \in 0..Len(before[n]) :
                              OccursAt(before[n], ContextWord, i)
                     THEN SubSeq(before, 1, n - 1)
                     ELSE before

\* the final block "PS C:\x> contexts" was removed, the block before it kept
C3_Witness ==
    /\ pc = "select"
    /\ Len(ParseTranscript(text)) = 2
    /\ ParseTranscript(text)[2] = ContextsBlock
    /\ blocks = <<DirBlock>>

\* C4: the selection is taken from what the filter returned: with a count N
\* the selected blocks are the last min(N, L) of the L filtered blocks in
\* their order, with "all" they are all the filtered blocks.
C4_SelectsTrailingBlocks ==
    pc = "print" \/ Displayed =>
        /\ blocks = FilterSelfReferential(ParseTranscript(text))
        /\ IF ShowAll(args) THEN selected_blocks = blocks
           ELSE \E n \in 1..MaxCount :
                   /\ args.count = Decimal(n)
                   /\ IsLastN(selected_blocks, blocks, n)

\* 2 of 3 filtered blocks were selected
C4_Witness ==
    /\ pc = "print"
    /\ count = 2
    /\ Len(blocks) = 3
    /\ blocks[1] # blocks[3]
    /\ selected_blocks = <<blocks[2], blocks[3]>>

\* The lines of the output without their "#c# " prefix; a line without the
\* prefix makes the result the one-line sequence <<NoText>>.
Unprefixed(out) ==
    LET lines == Split(out)
    IN  IF \A k \in 1..Len(lines) : StartsWith(lines[k], Prefix)
        THEN [k \in 1..Len(lines) |-> From(lines[k], Len(Prefix) + 1)]
        ELSE <<NoText>>

\* the lines of the blocks, a blank line after each block
LinesWithSeparators(bs) ==
    Concat([k \in 1..Len(bs) |-> Append(Split(bs[k]), <<>>)])

\* C5 as claimed: for every selected sequence the output, split into lines
\* and stripped of the prefixes, is the blocks' lines with one blank line
\* after each block.
C5_Original ==
    Displayed =>
        Unprefixed(stdout[1]) = LinesWithSeparators(selected_blocks)

\* C5, amended: for every non-empty selected sequence the output, split
\* into lines and stripped of the "#c# " prefixes, is exactly the selected
\* blocks' lines, in order, with one blank line after each block.
C5_FormatRoundTrip ==
    Displayed /\ selected_blocks # <<>> =>
        Unprefixed(stdout[1]) = LinesWithSeparators(selected_blocks)

\* two blocks were printed, one of them with a blank line inside
C5_Witness ==
    /\ Displayed
    /\ selected_blocks = <<LongBlock, DirBlock>>
    /\ Len(Split(stdout[1])) = 8

====
